---- MODULE Spec2Model ----
(***************************************************************************)
(* Model of giurdeluca/Sybil's annotation-seed extraction scripts:         *)
(*   src/utils/extract_annotation_seed.py   the batch run that updates     *)
(*                                          the annotation table           *)
(*   src/extract_annotation_seed.py         the earlier variant (render    *)
(*                                          only, square images)           *)
(*                                                                         *)
(* Encoding of values.  A table cell is a record [k, v]:                   *)
(*   k = "num"   the number v / Den for a geometry cell (a normalized      *)
(*               fraction), or the integer v for center_x / center_y       *)
(*   k = "nan"   pandas' NaN (a missing number)                            *)
(*   k = "str"   a string; v = 0 is the empty string '', v = p > 0 is the  *)
(*               path of the p-th file found by os.walk                    *)
(*   k = "empty" an empty field of a CSV file                              *)
(* Normalized fractions are n / Den with Den a power of two, for which     *)
(* float(row[..]) * img_width is exact in binary floating point.           *)
(***************************************************************************)
EXTENDS Integers, Sequences, FiniteSets, TLC

\* ---------------------------------------------------------------- bounds
MaxRows == 2      \* rows of the annotation CSV
MaxFiles == 2     \* .dcm files under the data folder
Den == 4          \* normalized values are n / Den
MaxDim == 3       \* image height and width range over 1..MaxDim (SpecT)

VARIABLES
    pc,               \* position of the script
    csv,              \* rows of the annotations file on disk
    annotations,      \* the DataFrame `annotations` of main
    all_dicom_files,  \* the list built by os.walk, in enumeration order
    i,                \* position of the for loop over all_dicom_files
    overlays,         \* names of the PNG files written so far
    log,              \* messages printed by the except clauses
    openFigs,         \* matplotlib figures currently open
    peakFigs,         \* largest number of figures open at once so far
    saved,            \* updated_annotations.csv: [written, rows]
    tin,              \* SpecT: the arguments of the coordinate conversion
    tout              \* SpecT: its result

vars == <<pc, csv, annotations, all_dicom_files, i, overlays, log, openFigs,
          peakFigs, saved, tin, tout>>

batchVars == <<pc, csv, annotations, all_dicom_files, i, overlays, log,
               openFigs, peakFigs, saved>>

\* ----------------------------------------------------------------- cells
NaN == [k |-> "nan", v |-> 0]
Empty == [k |-> "empty", v |-> 0]
Num(n) == [k |-> "num", v |-> n]
Str(p) == [k |-> "str", v |-> p]

BSeq(S, n) == UNION {[1..m -> S] : m \in 0..n}

\* pandas.read_csv on one field: an empty field becomes NaN
ReadCell(c) == IF c.k = "empty" THEN NaN ELSE c

\* DataFrame.to_csv on one cell: NaN and '' are both written as an empty field
WriteCell(c) ==
    IF c.k = "nan" \/ (c.k = "str" /\ c.v = 0) THEN Empty ELSE c

\* --------------------------------------------------- coordinate transform
\* Python int(): truncation toward zero of num / den (den > 0)
PyInt(num, den) == IF num >= 0 THEN num \div den ELSE -((-num) \div den)

\* Python //: floor division
FloorDiv(a, b) == a \div b

\* float(row[f]) * size followed by int(); int(nan) raises ValueError
HasNaN(row) ==
    \E f \in {"x", "y", "width", "height"} : row[f].k = "nan"

PixelGeometry(row, img_height, img_width) ==
    LET bbox_x == PyInt(row.x.v * img_width, Den)
        bbox_y == PyInt(row.y.v * img_height, Den)
        bbox_w == PyInt(row.width.v * img_width, Den)
        bbox_h == PyInt(row.height.v * img_height, Den)
    IN  [bbox_x |-> bbox_x, bbox_y |-> bbox_y, bbox_w |-> bbox_w,
         bbox_h |-> bbox_h,
         center_x |-> bbox_x + FloorDiv(bbox_w, 2),
         center_y |-> bbox_y + FloorDiv(bbox_h, 2)]

\* the earlier variant: img_size = dcm.pixel_array.shape[0] scales everything
PixelGeometrySeed(row, img_height, img_width) ==
    LET img_size == img_height
        bbox_x == PyInt(row.x.v * img_size, Den)
        bbox_y == PyInt(row.y.v * img_size, Den)
        bbox_w == PyInt(row.width.v * img_size, Den)
        bbox_h == PyInt(row.height.v * img_size, Den)
    IN  [bbox_x |-> bbox_x, bbox_y |-> bbox_y, bbox_w |-> bbox_w,
         bbox_h |-> bbox_h,
         center_x |-> bbox_x + FloorDiv(bbox_w, 2),
         center_y |-> bbox_y + FloorDiv(bbox_h, 2)]

\* ------------------------------------------------------------ input data
\* Instance UIDs: A and B may be annotated, C never is
TableUIDs == {"A", "B"}

\* geometry rows of the CSV as numerators over Den: an in-range box, a second
\* in-range box, a box whose x is 5/4 (out of [0,1]) and a box whose width
\* field is empty
Geoms ==
    { <<Num(1), Num(2), Num(2), Num(1)>>,
      <<Num(2), Num(1), Num(1), Num(2)>>,
      <<Num(Den + 1), Num(2), Num(2), Num(1)>>,
      <<Num(1), Num(2), Empty, Num(1)>> }

CsvRows ==
    { [uid |-> u, x |-> g[1], y |-> g[2], width |-> g[3], height |-> g[4]] :
        u \in TableUIDs, g \in Geoms }

\* What pydicom.dcmread yields for a file.  ok = FALSE: the file does not
\* decode.  InstanceNumber and the pixel array's shape belong to the instance,
\* so copies of one instance (same SOPInstanceUID) share them.  saveOK tells
\* whether plt.savefig succeeds for the file's overlay.
Slice(u, s) ==
    [ok |-> TRUE, uid |-> u,
     num |-> IF u = "A" THEN 1 ELSE IF u = "B" THEN 2 ELSE 3,
     h |-> IF u = "A" THEN 2 ELSE 4, w |-> 4, saveOK |-> s]

Undecodable == [ok |-> FALSE, uid |-> "-", num |-> 0, h |-> 0, w |-> 0,
                saveOK |-> FALSE]

FileKinds ==
    {Undecodable, Slice("C", TRUE)}
        \cup {Slice(u, s) : u \in TableUIDs, s \in BOOLEAN}

\* the p-th file found by os.walk; its path is p
WithPath(f, p) ==
    [path |-> p, ok |-> f.ok, uid |-> f.uid, num |-> f.num, h |-> f.h,
     w |-> f.w, saveOK |-> f.saveOK]

\* ------------------------------------------------------------- DataFrame
\* main lines 77-84: read_csv, three new columns, set_index('Instance UID')
LoadRow(r) ==
    [uid |-> r.uid, x |-> ReadCell(r.x), y |-> ReadCell(r.y),
     width |-> ReadCell(r.width), height |-> ReadCell(r.height),
     dcm_path |-> Str(0), center_x |-> NaN, center_y |-> NaN]

LoadAnnotations(file) ==
    [indexed |-> TRUE, rows |-> [r \in 1..Len(file) |-> LoadRow(file[r])]]

\* the labels of annotations.index equal to sop_uid
Matches(df, sop_uid) == {r \in 1..Len(df.rows) : df.rows[r].uid = sop_uid}

\* mutation of InIndex: the membership test of line 100 is dropped
InIndexAlways(df, sop_uid) == TRUE

\* `sop_uid in annotations.index`
InIndex(df, sop_uid) == Matches(df, sop_uid) # {}

\* annotations_df.loc[sop_uid, ['dcm_path','center_x','center_y']] = [...]
SetDerived(df, sop_uid, dcm_path, center_x, center_y) ==
    [df EXCEPT !.rows =
        [r \in 1..Len(df.rows) |->
            IF df.rows[r].uid = sop_uid
            THEN [df.rows[r] EXCEPT !.dcm_path = Str(dcm_path),
                                    !.center_x = Num(center_x),
                                    !.center_y = Num(center_y)]
            ELSE df.rows[r]]]

\* to_csv(index = False) after reset_index
WriteRow(r) ==
    [uid |-> r.uid, x |-> WriteCell(r.x), y |-> WriteCell(r.y),
     width |-> WriteCell(r.width), height |-> WriteCell(r.height),
     dcm_path |-> WriteCell(r.dcm_path), center_x |-> WriteCell(r.center_x),
     center_y |-> WriteCell(r.center_y)]

ToCsv(df) == [r \in 1..Len(df.rows) |-> WriteRow(df.rows[r])]

\* ------------------------------------------------------- one loop iteration
\* The state an iteration works on:
\*   [annotations, overlays, log, openFigs, peakFigs, exc]
\* exc is the exception in flight ("none" when there is none).
Msg(text, uid, path) == [msg |-> text, uid |-> uid, path |-> path]

Max(a, b) == IF a >= b THEN a ELSE b

plot_dicom_with_annotations(st, dcm, g) ==
    LET opened == st.openFigs + 1           \* plt.subplots
        peak == Max(st.peakFigs, opened)
    IN  IF dcm.saveOK
        THEN [st EXCEPT !.overlays = @ \cup {dcm.num},   \* plt.savefig
                        !.openFigs = opened - 1,          \* plt.close
                        !.peakFigs = peak]
        ELSE [st EXCEPT !.openFigs = opened,              \* savefig raised
                        !.peakFigs = peak,
                        !.exc = "OSError"]

extract_and_visualize_annotations(st, dcm, sop_uid) ==
    LET df == st.annotations
        m == Matches(df, sop_uid)
        errLine == Msg("Error processing annotation", sop_uid, 0)
    IN  IF m = {}
        THEN \* .loc raises KeyError
             [st EXCEPT !.log = Append(@, Msg("No annotation row found",
                                              sop_uid, 0))]
        ELSE IF Cardinality(m) > 1
        THEN \* row is a DataFrame, row["x"] a Series: float() raises TypeError
             [st EXCEPT !.log = Append(@, errLine)]
        ELSE LET row == df.rows[CHOOSE r \in m : TRUE]
             IN  IF HasNaN(row)
                 THEN \* int(nan) raises ValueError
                      [st EXCEPT !.log = Append(@, errLine)]
                 ELSE LET g == PixelGeometry(row, dcm.h, dcm.w)
                          p == plot_dicom_with_annotations(st, dcm, g)
                      IN  IF p.exc # "none"
                          THEN [p EXCEPT !.log = Append(@, errLine),
                                         !.exc = "none"]
                          ELSE [p EXCEPT !.annotations =
                                   SetDerived(df, sop_uid, dcm.path,
                                              g.center_x, g.center_y)]

\* main lines 96-107, the body of the try
MainBody(st, dcm) ==
    IF ~dcm.ok
    THEN [st EXCEPT !.exc = "InvalidDicomError"]
    ELSE IF InIndex(st.annotations, dcm.uid)
         THEN extract_and_visualize_annotations(st, dcm, dcm.uid)
         ELSE st

\* mutation of ItemHandler: the exception is not caught at the item boundary
ItemHandlerReraise(st, dcm) == st

\* main lines 109-111: except Exception: print, continue
ItemHandler(st, dcm) ==
    [st EXCEPT !.log = Append(@, Msg("Error reading or processing", "-",
                                     dcm.path)),
               !.exc = "none"]

Iteration(st, dcm) ==
    LET r == MainBody(st, dcm)
    IN  IF r.exc # "none" THEN ItemHandler(r, dcm) ELSE r

LoopState ==
    [annotations |-> annotations, overlays |-> overlays, log |-> log,
     openFigs |-> openFigs, peakFigs |-> peakFigs, exc |-> "none"]

\* ----------------------------------------------------------- the batch run
NoFile == [written |-> FALSE, rows |-> <<>>]
NoFrame == [indexed |-> FALSE, rows |-> <<>>]
Idle == [k |-> "idle"]

Init ==
    /\ pc = "Validating"
    /\ csv = <<>>
    /\ annotations = NoFrame
    /\ all_dicom_files = <<>>
    /\ i = 1
    /\ overlays = {}
    /\ log = <<>>
    /\ openFigs = 0
    /\ peakFigs = 0
    /\ saved = NoFile
    /\ tin = Idle
    /\ tout = Idle

\* __main__: the argument count and the two path checks
Validate ==
    /\ pc = "Validating"
    /\ \E argc \in {3, 4}, isdir \in BOOLEAN, isfile \in BOOLEAN :
          pc' = IF argc # 4 \/ ~isdir \/ ~isfile THEN "Aborted" ELSE "Loading"
    /\ UNCHANGED <<csv, annotations, all_dicom_files, i, overlays, log,
                   openFigs, peakFigs, saved, tin, tout>>

\* main lines 72-92
Load ==
    /\ pc = "Loading"
    /\ \E file \in BSeq(CsvRows, MaxRows), found \in BSeq(FileKinds, MaxFiles) :
          /\ csv' = file
          /\ annotations' = LoadAnnotations(file)
          /\ all_dicom_files' =
                [p \in 1..Len(found) |-> WithPath(found[p], p)]
    /\ i' = 1
    /\ pc' = "Traversing"
    /\ UNCHANGED <<overlays, log, openFigs, peakFigs, saved, tin, tout>>

\* main lines 94-111, one iteration of the for loop
Process ==
    /\ pc = "Traversing"
    /\ i <= Len(all_dicom_files)
    /\ \E r \in {Iteration(LoopState, all_dicom_files[i])} :
           /\ annotations' = r.annotations
           /\ overlays' = r.overlays
           /\ log' = r.log
           /\ openFigs' = r.openFigs
           /\ peakFigs' = r.peakFigs
           /\ pc' = IF r.exc # "none" THEN "Crashed" ELSE "Traversing"
    /\ i' = i + 1
    /\ UNCHANGED <<csv, all_dicom_files, saved, tin, tout>>

\* main line 114: the loop is over, reset_index
ResetIndex ==
    /\ pc = "Traversing"
    /\ i > Len(all_dicom_files)
    /\ annotations' = [annotations EXCEPT !.indexed = FALSE]
    /\ pc' = "Finalizing"
    /\ UNCHANGED <<csv, all_dicom_files, i, overlays, log, openFigs, peakFigs,
                   saved, tin, tout>>

\* main lines 117-119: to_csv
SaveCsv ==
    /\ pc = "Finalizing"
    /\ saved' = [written |-> TRUE, rows |-> ToCsv(annotations)]
    /\ pc' = "Done"
    /\ UNCHANGED <<csv, annotations, all_dicom_files, i, overlays, log,
                   openFigs, peakFigs, tin, tout>>

Next == Validate \/ Load \/ Process \/ ResetIndex \/ SaveCsv

Spec == Init /\ [][Next]_vars
\* ------------------------------------------- the coordinate conversion alone
\* SpecT applies the conversion of both scripts to every normalized box with
\* components in [0,1] (numerators 0..Den) and every shape in 1..MaxDim.
TInputs ==
    [x : 0..Den, y : 0..Den, width : 0..Den, height : 0..Den,
     h : 1..MaxDim, w : 1..MaxDim]

TRow(t) ==
    [x |-> Num(t.x), y |-> Num(t.y), width |-> Num(t.width),
     height |-> Num(t.height)]

InitT ==
    /\ pc = "Transform"
    /\ csv = <<>>
    /\ annotations = NoFrame
    /\ all_dicom_files = <<>>
    /\ i = 1
    /\ overlays = {}
    /\ log = <<>>
    /\ openFigs = 0
    /\ peakFigs = 0
    /\ saved = NoFile
    /\ tin \in TInputs
    /\ tout = Idle

\* src/utils/extract_annotation_seed.py lines 43-53
TransformUtils ==
    /\ tout.k = "idle"
    /\ tout' = [k |-> "utils", g |-> PixelGeometry(TRow(tin), tin.h, tin.w)]
    /\ UNCHANGED <<batchVars, tin>>

\* src/extract_annotation_seed.py lines 45-58
TransformSeed ==
    /\ tout.k = "idle"
    /\ tout' = [k |-> "seed", g |-> PixelGeometrySeed(TRow(tin), tin.h, tin.w)]
    /\ UNCHANGED <<batchVars, tin>>

NextT == TransformUtils \/ TransformSeed

SpecT == InitT /\ [][NextT]_vars

\* ================================================================== claims
Files == all_dicom_files
Rows == annotations.rows
Cur == all_dicom_files[i]

\* a step of the for loop
Stepping == pc = "Traversing" /\ i <= Len(Files) /\ i' = i + 1

IsSet(row) == row.center_x.k = "num"
DerivedOf(row) == <<row.dcm_path, row.center_x, row.center_y>>

InRange(row) ==
    \A f \in {"x", "y", "width", "height"} :
        row[f].k = "num" /\ row[f].v >= 0 /\ row[f].v <= Den

GeomOf(row) == <<row.x, row.y, row.width, row.height>>

\* the first row of the table that carries the identifier
FirstMatch(df, u) ==
    CHOOSE r \in Matches(df, u) : \A q \in Matches(df, u) : r <= q

\* the current file decodes and its identifier labels exactly one row
CurUnique == Cur.ok /\ Cardinality(Matches(annotations, Cur.uid)) = 1
CurRow == FirstMatch(annotations, Cur.uid)

\* C1: in a batch run the derived fields (dcm_path, center_x, center_y) of a
\* row are written at most once: once they are set, no later resolution in
\* the same run changes them, also when two files carry the same Instance UID.
C1_WrittenOnce ==
    [][\A r \in 1..Len(Rows) :
          IsSet(Rows[r]) =>
              DerivedOf(annotations'.rows[r]) = DerivedOf(Rows[r])]_vars

\* C2: for a slice whose identifier is found and whose transform succeeds,
\* the row's derived fields are set even when rendering the overlay fails.
C2_RenderFailureKeepsUpdate ==
    [][(Stepping /\ CurUnique /\ InRange(Rows[CurRow]) /\ ~Cur.saveOK)
          => IsSet(annotations'.rows[CurRow])]_vars

\* C3: once validation has passed the run goes Traversing -> Finalizing ->
\* Done whatever fails per file: no step leaves that path, the run can always
\* take its next step until Done, every file is visited (one per step), and
\* the full table is persisted at the end.
C3_RunCompletes ==
    /\ [][pc = "Traversing" =>
            /\ pc' \in {"Traversing", "Finalizing"}
            /\ (pc' = "Traversing" => i' = i + 1)
            /\ (pc' = "Finalizing" => i = Len(Files) + 1)]_vars
    /\ [][pc = "Finalizing" => pc' = "Done"]_vars
    /\ [](pc = "Traversing" => i <= Len(Files) + 1 /\ ENABLED (Process \/ ResetIndex))
    /\ [](pc = "Finalizing" => ENABLED SaveCsv)
    /\ [](pc = "Done" =>
            /\ i = Len(Files) + 1
            /\ saved.written
            /\ saved.rows = ToCsv(annotations)
            /\ Len(saved.rows) = Len(csv)
            /\ \A r \in 1..Len(csv) : saved.rows[r].uid = csv[r].uid)

\* a run that ended although a file failed to decode and a render or
\* transform failed
C3_Witness ==
    /\ pc = "Done"
    /\ saved.written
    /\ \E k \in 1..Len(Files) : ~Files[k].ok
    /\ \E n \in 1..Len(log) : log[n].msg = "Error processing annotation"

\* every order in which os.walk could have listed the same files
RECURSIVE RunAll(_, _)
RunAll(st, files) ==
    IF files = <<>> THEN st
    ELSE RunAll(Iteration(st, Head(files)), Tail(files))

FinalTable(files) ==
    ToCsv(RunAll([annotations |-> LoadAnnotations(csv), overlays |-> {},
                  log |-> <<>>, openFigs |-> 0, peakFigs |-> 0,
                  exc |-> "none"], files).annotations)

Reordered(q) == [k \in 1..Len(Files) |-> Files[q[k]]]

\* C4: the persisted table does not depend on the enumeration order: a run
\* over the same files in any other order ends with the same table.
C4_OrderIndependent ==
    pc = "Done" =>
        \A q \in Permutations(1..Len(Files)) :
            FinalTable(Reordered(q)) = saved.rows

Floor(num, den) == num \div den

\* C5: for every box with components in [0,1] and every h, w > 0 (h # w
\* included): bbox_x = floor(x*w), bbox_y = floor(y*h), bbox_w =
\* floor(width*w), bbox_h = floor(height*h), center = corner + side // 2.
C5_PixelGeometry ==
    tout.k # "idle" =>
        /\ tout.g.bbox_x = Floor(tin.x * tin.w, Den)
        /\ tout.g.bbox_y = Floor(tin.y * tin.h, Den)
        /\ tout.g.bbox_w = Floor(tin.width * tin.w, Den)
        /\ tout.g.bbox_h = Floor(tin.height * tin.h, Den)
        /\ tout.g.center_x = tout.g.bbox_x + (tout.g.bbox_w \div 2)
        /\ tout.g.center_y = tout.g.bbox_y + (tout.g.bbox_h \div 2)

\* C6: when the matched row has a normalized value outside [0,1] the
\* transform fails: no overlay is rendered, the row's derived fields stay
\* unset, and the traversal continues.
C6_InvalidGeometryRejected ==
    [][(Stepping /\ CurUnique /\ ~HasNaN(Rows[CurRow])
          /\ ~InRange(Rows[CurRow]))
          => /\ overlays' = overlays
             /\ annotations' = annotations
             /\ pc' = "Traversing"]_vars

NoMatchRun ==
    \A k \in 1..Len(Files) :
        Files[k].ok => Matches(annotations, Files[k].uid) = {}

InputPlusEmptyColumns ==
    [r \in 1..Len(csv) |->
        [uid |-> csv[r].uid, x |-> csv[r].x, y |-> csv[r].y,
         width |-> csv[r].width, height |-> csv[r].height,
         dcm_path |-> Empty, center_x |-> Empty, center_y |-> Empty]]

\* C7: a decoded slice whose identifier is absent from the table changes
\* nothing (no overlay, no table change, nothing logged), and a run with no
\* matching identifier persists the input table plus three empty derived
\* columns and renders no overlay.
C7_NotFoundChangesNothing ==
    /\ [][(Stepping /\ Cur.ok /\ Matches(annotations, Cur.uid) = {})
            => /\ UNCHANGED <<annotations, overlays, log, openFigs>>
               /\ pc' = "Traversing"]_vars
    /\ [](pc = "Done" /\ NoMatchRun =>
            saved.rows = InputPlusEmptyColumns /\ overlays = {})

\* a finished run over a non-empty table with a missing geometry field, whose
\* decoded files all carry identifiers the table lacks
C7_Witness ==
    /\ pc = "Done"
    /\ \E r \in 1..Len(csv) : csv[r].width = Empty
    /\ \E k \in 1..Len(Files) : Files[k].ok
    /\ \A k \in 1..Len(Files) : Files[k].ok
    /\ NoMatchRun

\* C8: when the table has the same identifier in two rows with different
\* geometries and a decoded slice carries it, exactly one resolution occurs
\* (the first matching row is transformed, rendered and updated) and a
\* warning is recorded.
C8_FirstMatchWins ==
    [][(/\ Stepping
        /\ Cur.ok
        /\ Cardinality(Matches(annotations, Cur.uid)) >= 2
        /\ \E a, b \in Matches(annotations, Cur.uid) :
              GeomOf(Rows[a]) # GeomOf(Rows[b])
        /\ InRange(Rows[CurRow])
        /\ Cur.saveOK)
          => /\ annotations'.rows[CurRow].center_x =
                  Num(PixelGeometry(Rows[CurRow], Cur.h, Cur.w).center_x)
             /\ annotations'.rows[CurRow].dcm_path = Str(Cur.path)
             /\ Cur.num \in overlays'
             /\ Len(log') = Len(log) + 1]_vars

\* row r was resolved: a decoded slice carries its identifier, r is the
\* first row with that identifier, and its geometry fields are all present
Resolved(r) ==
    /\ ~HasNaN(Rows[r])
    /\ \E k \in 1..Len(Files) :
          /\ Files[k].ok
          /\ Files[k].uid = Rows[r].uid
          /\ r = FirstMatch(annotations, Rows[r].uid)

\* C9: a row's derived fields are all unset or all set in every state and in
\* the persisted table, and at the end a row has non-null center_x/center_y
\* exactly when its identifier was resolved by a decoded slice.
C9_DerivedFieldsConsistent ==
    /\ \A r \in 1..Len(Rows) :
          /\ (Rows[r].center_x.k = "num") <=> (Rows[r].center_y.k = "num")
          /\ (Rows[r].center_x.k = "num") <=> (Rows[r].dcm_path # Str(0))
    /\ pc = "Done" =>
          \A r \in 1..Len(Rows) :
              /\ (saved.rows[r].center_x # Empty) <=>
                     (saved.rows[r].center_y # Empty)
              /\ (saved.rows[r].center_x # Empty) <=> Resolved(r)

\* C10: the figure opened for a slice is released before the next slice on
\* every path, saving failed or not: no figure stays open after a call of
\* the renderer and at most one is ever open.
C10_FigureReleased == openFigs = 0 /\ peakFigs <= 1

====
